---- MODULE Spec2Model ----
(***************************************************************************)
(* The list-action dispatcher (handle_actions in                           *)
(* src/ui/tcmui/manage/decorators.py) as a state machine: a decorator      *)
(* configuration, one request built by the request factory, and the whole  *)
(* of _wrapped_view as one step.  The collaborators the handler calls      *)
(* (list_model.get_by_id, the record's action method, the wrapped view)    *)
(* are logged with their outcome, the way a Mock records its calls.        *)
(*                                                                         *)
(* The Finder of the list views is known here through its tests and its    *)
(* specification only: its column derivation follows the specification     *)
(* text and runs under its own specification, SpecFinder.                  *)
(***************************************************************************)
EXTENDS Integers, Sequences, FiniteSets, TLC

VARIABLES
    allowed_actions,   \* decorator argument: the allow-list of action names
    fall_through,      \* decorator argument
    permission,        \* the permission the list view is declared to require
    request,           \* the request being handled
    view_args,         \* the *args / **kwargs the view is called with
    pc,                \* "idle" -> "received" -> "done"
    calls,             \* calls made on list_model and on the record, in order
    view_calls,        \* calls of the wrapped view_func, in order
    messages,          \* the request's message queue
    action_taken,      \* the handler's local of that name, when it ended
    response,          \* the response returned (NoResponse when it raised)
    raised,            \* the exception that left the handler ("None" if none)
    columns,           \* Finder: the declared column names, in order
    parent_columns,    \* Finder: child name -> parent name
    child_columns,     \* Finder: parent name -> child name
    fpc                \* Finder: "declared" -> "built"

dvars == <<allowed_actions, fall_through, permission, request, view_args, pc,
           calls, view_calls, messages, action_taken, response, raised>>
fvars == <<columns, parent_columns, child_columns, fpc>>
vars  == <<dvars, fvars>>

----------------------------------------------------------------------------
(* Bounds of the model *)

\* longest POST / GET payload (number of fields)
MaxPost == 2
\* longest Finder column declaration
MaxCols == 3

----------------------------------------------------------------------------
(* The values requests are built from *)

ACTION_PREFIX == "action-"

ActionNames == {"doit", "undo"}
Keys        == {"action-doit", "action-undo", "other", "xaction-doit"}
Ids         == {"3", "7"}
Methods     == {"GET", "HEAD", "POST"}
Paths       == {"/the/url"}
QueryStrings == {"", "filter=value"}
Users       == {"unset", "permitted", "denied"}
Permissions == {"None", "do_things"}
ViewArgs    == {[args |-> <<>>, kwargs |-> <<>>],
                [args |-> <<"a">>, kwargs |-> <<"b", "2">>]}

\* request.POST / request.GET: fields with unique keys, in the order
\* iteritems() yields them (any order: the dict is unordered).
Payloads ==
    UNION {{p \in [1..n -> Keys \X Ids] :
               \A i, j \in 1..n : (p[i][1] = p[j][1]) => (i = j)}
           : n \in 0..MaxPost}

NoRequest  == [method |-> "", path |-> "", QUERY_STRING |-> "", POST |-> <<>>,
               GET |-> <<>>, ajax |-> FALSE, user |-> "unset", auth |-> ""]
NoResponse == [status |-> 0, Location |-> "", request |-> NoRequest]
NoArgs     == [args |-> <<>>, kwargs |-> <<>>]

Names == {"top", "mid", "fin", "alt", "ext"}

----------------------------------------------------------------------------
(* Helpers of the handler *)

\* k.startswith(p)
startswith(k, p) == Len(k) >= Len(p) /\ SubSeq(k, 1, Len(p)) = p

\* actions = [(k, v) for k, v in request.POST.iteritems()
\*            if k.startswith("action-")]
actions(POST) == SelectSeq(POST, LAMBDA kv : startswith(kv[1], ACTION_PREFIX))

\* action, obj_id = actions[0]
\* (each definition below that directly precedes the one it resembles is a
\* faulty variant of it, kept to show that the theorems tell them apart)
FirstLast(acts) == acts[Len(acts)]
First(acts) == acts[1]

\* action = action[len("action-"):]
strip_prefix(k) == SubSeq(k, Len(ACTION_PREFIX) + 1, Len(k))

\* if action in allowed_actions
AllowedAny(action) == TRUE
Allowed(action) == action \in allowed_actions

\* if request.method == "POST"
IsPostNotGet(req) == req.method # "GET"
IsPost(req) == req.method = "POST"

\* except obj.Conflict, e
CatchesAll(exc) == TRUE
Catches(exc) == exc = "Conflict"

\* if action_taken or not fall_through
ShouldRedirectAlways(taken) == TRUE
ShouldRedirect(taken) == taken \/ ~fall_through

\* request.get_full_path(): the path, plus "?" and the query string if any
get_full_path_NoQuery(req) == req.path
get_full_path(req) ==
    IF req.QUERY_STRING = "" THEN req.path
    ELSE req.path \o "?" \o req.QUERY_STRING

\* redirect(to): a 302 response whose Location is `to`
redirect(to) == [status |-> 302, Location |-> to, request |-> NoRequest]

\* the wrapped view of the tests: HttpResponse() carrying the request it saw
view_func(req) == [status |-> 200, Location |-> "", request |-> req]

\* the records of the call log
GetById(obj_id, auth, result) == <<"get_by_id", obj_id, auth, result>>
Obj(obj_id) == <<"obj", obj_id>>
Method(obj, action, result) == <<"method", obj, action, result>>
Message(exc, obj) == [level |-> "error", message |-> <<exc, <<"unicode", obj>>>>]

LookupOutcomes == {"found", "NotFound"}
MethodOutcomes == {"returned", "Conflict", "Error"}

----------------------------------------------------------------------------
(* The dispatcher *)

Init ==
    /\ allowed_actions \in SUBSET ActionNames
    /\ fall_through \in BOOLEAN
    /\ permission \in Permissions
    /\ request = NoRequest
    /\ view_args = NoArgs
    /\ pc = "idle"
    /\ calls = <<>>
    /\ view_calls = <<>>
    /\ messages = <<>>
    /\ action_taken = FALSE
    /\ response = NoResponse
    /\ raised = "None"
    /\ columns = <<>>
    /\ parent_columns = <<>>
    /\ child_columns = <<>>
    /\ fpc = "off"

\* RequestFactory().get / .head / .post(path, data, ...): post() puts the
\* data in request.POST, the others in request.GET.
RequestFactory ==
    /\ pc = "idle"
    /\ \E m \in Methods, p \in Paths, q \in QueryStrings, data \in Payloads,
          x \in BOOLEAN, u \in Users, va \in ViewArgs :
          /\ request' = [method |-> m, path |-> p, QUERY_STRING |-> q,
                         POST |-> IF m = "POST" THEN data ELSE <<>>,
                         GET |-> IF m = "POST" THEN <<>> ELSE data,
                         ajax |-> x, user |-> u, auth |-> "auth"]
          /\ view_args' = va
    /\ pc' = "received"
    /\ UNCHANGED <<allowed_actions, fall_through, permission, calls,
                   view_calls, messages, action_taken, response, raised>>
    /\ UNCHANGED fvars

\* The end of the handler: the handler raised `exc`.
Raise(cs, exc) ==
    /\ calls' = cs
    /\ raised' = exc
    /\ action_taken' = FALSE
    /\ UNCHANGED <<view_calls, messages, response>>

\* The end of the handler: lines 41-43.
Return(cs, msgs, taken) ==
    /\ calls' = cs
    /\ messages' = messages \o msgs
    /\ action_taken' = taken
    /\ raised' = "None"
    /\ IF IsPost(request) /\ ShouldRedirect(taken)
       THEN /\ response' = redirect(get_full_path(request))
            /\ UNCHANGED view_calls
       ELSE /\ response' = view_func(request)
            /\ view_calls' = Append(view_calls,
                    [request |-> request, args |-> view_args.args,
                     kwargs |-> view_args.kwargs])

\* _wrapped_view(request, *args, **kwargs), the whole of it.  `lookup` and
\* `outcome` are what get_by_id and the action method do if they are called.
WrappedView ==
    /\ pc = "received"
    /\ pc' = "done"
    /\ UNCHANGED <<allowed_actions, fall_through, permission, request, view_args>>
    /\ UNCHANGED fvars
    /\ \E lookup \in LookupOutcomes, outcome \in MethodOutcomes :
        LET acts   == actions(request.POST)
            action == strip_prefix(First(acts)[1])
            obj_id == First(acts)[2]
            get    == GetById(obj_id, request.auth, lookup)
            call   == Method(Obj(obj_id), action, outcome)
        IN  IF ~IsPost(request) THEN Return(<<>>, <<>>, FALSE)
            ELSE IF acts = <<>> THEN Return(<<>>, <<>>, FALSE)
            ELSE IF ~Allowed(action) THEN Return(<<>>, <<>>, FALSE)
            ELSE IF lookup = "NotFound" THEN Raise(<<get>>, "NotFound")
            ELSE IF outcome = "returned" THEN Return(<<get, call>>, <<>>, TRUE)
            ELSE IF Catches(outcome)
                 THEN Return(<<get, call>>,
                             <<Message(outcome, Obj(obj_id))>>, TRUE)
            ELSE Raise(<<get, call>>, outcome)

Next == RequestFactory \/ WrappedView

Spec == Init /\ [][Next]_vars

----------------------------------------------------------------------------
(* The Finder: parent and child columns derived from declaration order *)

\* the ordered, uniquely named column declarations of a Finder
ColumnLists ==
    UNION {{c \in [1..n -> Names] :
               \A i, j \in 1..n : (c[i] = c[j]) => (i = j)}
           : n \in 0..MaxCols}

\* dict(zip(keys, vals)): a later pair replaces an earlier one with its key
DictZip(keys, vals) ==
    LET n == IF Len(keys) < Len(vals) THEN Len(keys) ELSE Len(vals)
    IN  [k \in {keys[i] : i \in 1..n} |->
            vals[CHOOSE i \in 1..n :
                    /\ keys[i] = k
                    /\ \A j \in 1..n : (keys[j] = k) => (j <= i)]]

\* cols[:-1]
ButLast(cols) == IF cols = <<>> THEN <<>> ELSE SubSeq(cols, 1, Len(cols) - 1)
\* cols[1:]
Rest(cols) == IF cols = <<>> THEN <<>> ELSE Tail(cols)

\* parentColumns: each column but the first -> the column before it
ParentColumnsShifted(cols) == DictZip(Rest(cols), Rest(cols))
ParentColumns(cols) == DictZip(Rest(cols), ButLast(cols))

\* childColumns: each column but the last -> the column after it
ChildColumns(cols) == DictZip(ButLast(cols), Rest(cols))

InitFinder ==
    /\ allowed_actions = {}
    /\ fall_through = FALSE
    /\ permission = "None"
    /\ request = NoRequest
    /\ view_args = NoArgs
    /\ pc = "off"
    /\ calls = <<>>
    /\ view_calls = <<>>
    /\ messages = <<>>
    /\ action_taken = FALSE
    /\ response = NoResponse
    /\ raised = "None"
    /\ columns \in ColumnLists
    /\ parent_columns = <<>>
    /\ child_columns = <<>>
    /\ fpc = "declared"

\* Finder(): the lookup mappings are derived from the declared columns
Finder ==
    /\ fpc = "declared"
    /\ parent_columns' = ParentColumns(columns)
    /\ child_columns' = ChildColumns(columns)
    /\ fpc' = "built"
    /\ UNCHANGED columns
    /\ UNCHANGED dvars

NextFinder == Finder

SpecFinder == InitFinder /\ [][NextFinder]_vars

----------------------------------------------------------------------------
(* What the theorems speak of, stated without the handler's own helpers *)

Done == pc = "done"

\* the action a POST field names: "action-<name>" names <name>
NameOf(k) ==
    CASE k = "action-doit" -> "doit"
      [] k = "action-undo" -> "undo"
      [] OTHER -> ""

ActionIdx(req) == {i \in DOMAIN req.POST : NameOf(req.POST[i][1]) # ""}
HasAction(req) == ActionIdx(req) # {}
FirstIdx(req)  == CHOOSE i \in ActionIdx(req) : \A j \in ActionIdx(req) : i <= j
FirstName(req) == NameOf(req.POST[FirstIdx(req)][1])
FirstId(req)   == req.POST[FirstIdx(req)][2]

\* the first action-* key of the request names an allowed action
Recognized(req) == HasAction(req) /\ FirstName(req) \in allowed_actions

\* the path the request was submitted to, query string included
OriginalUrl(req) ==
    IF req.QUERY_STRING = "" THEN req.path ELSE req.path \o "?" \o req.QUERY_STRING

IsRedirectTo(res, url) == res.status = 302 /\ res.Location = url

LookupCalls == SelectSeq(calls, LAMBDA c : c[1] = "get_by_id")
MethodCalls == SelectSeq(calls, LAMBDA c : c[1] = "method")

\* the wrapped view was called once, with this request and these arguments
PassedThrough ==
    /\ view_calls = <<[request |-> request, args |-> view_args.args,
                       kwargs |-> view_args.kwargs]>>
    /\ response.status = 200
    /\ response.request = request

----------------------------------------------------------------------------
(* Theorems *)

\* C1: a non-AJAX POST whose first action-<name> key is allowed and whose id
\* resolves to a record (the method returning or signalling Conflict, the
\* cases in which the handler completes): get_by_id is called exactly once
\* with the submitted id, then <name> exactly once on the record found, and
\* the response is a redirect to the original path and query string; the
\* wrapped view is not called.  Holds for either value of fall_through.
C1_ActionThenRedirect ==
    (/\ Done
     /\ request.method = "POST"
     /\ ~request.ajax
     /\ Recognized(request)
     /\ raised = "None")
    => /\ \E o \in {"returned", "Conflict"} :
            calls = <<GetById(FirstId(request), request.auth, "found"),
                      Method(Obj(FirstId(request)), FirstName(request), o)>>
       /\ IsRedirectTo(response, OriginalUrl(request))
       /\ view_calls = <<>>

C1_Witness ==
    /\ Done
    /\ request.method = "POST"
    /\ ~request.ajax
    /\ request.POST = <<<<"action-doit", "3">>>>
    /\ request.QUERY_STRING = "filter=value"
    /\ fall_through
    /\ Len(calls) = 2
    /\ calls[2][4] = "returned"
    /\ response.Location = "/the/url?filter=value"

\* C2: with a permission configured and a user who lacks it, every request
\* is answered 403 with no lookup, no method call and no call of the view.
C2_ForbiddenWithoutPermission ==
    (Done /\ permission # "None" /\ request.user = "denied")
    => /\ response.status = 403
       /\ calls = <<>>
       /\ view_calls = <<>>

\* C3: an AJAX POST on which an action was taken (or fall_through is false)
\* is not redirected: the wrapped view is called and sees method GET and an
\* empty POST payload; the response is the view's, status 200.
C3_AjaxFallsThroughAsGet ==
    (/\ Done
     /\ request.method = "POST"
     /\ request.ajax
     /\ raised = "None"
     /\ (MethodCalls # <<>> \/ ~fall_through))
    => /\ response.status = 200
       /\ Len(view_calls) = 1
       /\ response.request.method = "GET"
       /\ response.request.POST = <<>>

\* C4: when the lookup of an allowed action's id signals NotFound, nothing
\* propagates, no method is called, and the outcome is that of a POST with
\* no action: a redirect if fall_through is false, the wrapped view if true.
C4_NotFoundIsNoAction ==
    (/\ Done
     /\ request.method = "POST"
     /\ ~request.ajax
     /\ Recognized(request)
     /\ LookupCalls # <<>>
     /\ LookupCalls[1][4] = "NotFound")
    => /\ raised = "None"
       /\ MethodCalls = <<>>
       /\ IF fall_through THEN PassedThrough
          ELSE IsRedirectTo(response, OriginalUrl(request)) /\ view_calls = <<>>

C6_NonPostPassesThrough ==
    (Done /\ request.method # "POST")
    => /\ calls = <<>>
       /\ messages = <<>>
       /\ raised = "None"
       /\ response.status # 302
       /\ PassedThrough

C6_Witness ==
    /\ Done
    /\ request.method = "HEAD"
    /\ request.GET = <<<<"action-doit", "3">>>>
    /\ "doit" \in allowed_actions
    /\ ~fall_through
    /\ view_args.args = <<"a">>
    /\ Len(view_calls) = 1

\* C7: a non-AJAX POST with no recognized action (no action-* key, or one
\* whose name is not allowed) causes no lookup and no method call, for every
\* allow-list; with fall_through false it is answered by a redirect to the
\* original path and query and the wrapped view is not called.  The two
\* cases have the same calls and the same response.
C7_NoRecognizedAction ==
    (/\ Done
     /\ request.method = "POST"
     /\ ~request.ajax
     /\ ~Recognized(request))
    => /\ calls = <<>>
       /\ messages = <<>>
       /\ raised = "None"
       /\ ~fall_through =>
             /\ IsRedirectTo(response, OriginalUrl(request))
             /\ view_calls = <<>>

C7_Witness ==
    /\ Done
    /\ request.method = "POST"
    /\ ~request.ajax
    /\ request.POST = <<<<"action-undo", "3">>>>
    /\ allowed_actions = {"doit"}
    /\ ~fall_through
    /\ response.status = 302

\* C8: with fall_through, a non-AJAX POST on which no action was taken makes
\* no lookup and reaches the wrapped view unmodified (method POST, the
\* submitted payload), whose response (200) is returned; with fall_through a
\* redirect happens only if an action was taken.
C8_FallThroughUntouched ==
    (/\ Done
     /\ fall_through
     /\ request.method = "POST"
     /\ ~request.ajax
     /\ raised = "None")
    => /\ (MethodCalls = <<>>) =>
             /\ calls = <<>>
             /\ PassedThrough
             /\ response.request.method = "POST"
             /\ response.request.POST = request.POST
       /\ (response.status = 302) => (MethodCalls # <<>> /\ action_taken)

C8_Witness ==
    /\ Done
    /\ fall_through
    /\ request.method = "POST"
    /\ ~request.ajax
    /\ request.POST = <<<<"other", "3">>>>
    /\ response.status = 200
    /\ response.request.POST = <<<<"other", "3">>>>

\* C9: at most one action per request: at most one lookup and at most one
\* method call, for the id and the name of the first action-* key, which is
\* allowed; if the first action-* key is not allowed nothing is processed,
\* even when a later action-* key names an allowed action.
C9_AtMostOneAction ==
    Done =>
      /\ Len(LookupCalls) <= 1
      /\ Len(MethodCalls) <= 1
      /\ \A i \in DOMAIN LookupCalls :
            /\ HasAction(request)
            /\ LookupCalls[i][2] = FirstId(request)
            /\ FirstName(request) \in allowed_actions
      /\ \A i \in DOMAIN MethodCalls :
            /\ HasAction(request)
            /\ MethodCalls[i][2] = Obj(FirstId(request))
            /\ MethodCalls[i][3] = FirstName(request)
            /\ MethodCalls[i][3] \in allowed_actions
      /\ (HasAction(request) /\ FirstName(request) \notin allowed_actions)
            => calls = <<>>

C9_Witness ==
    /\ Done
    /\ request.method = "POST"
    /\ request.POST = <<<<"action-undo", "3">>, <<"action-doit", "7">>>>
    /\ allowed_actions = {"doit"}
    /\ calls = <<>>

\* C10: for an ordered list of uniquely named columns, parent_columns maps
\* each column but the first to the one before it and child_columns each
\* column but the last to the one after it; the first column has no parent,
\* the last no child, and the two mappings are inverses of each other.
C10_ParentChildColumns ==
    (fpc = "built") =>
      LET n == Len(columns) IN
      /\ DOMAIN parent_columns = {columns[i] : i \in 2..n}
      /\ DOMAIN child_columns = {columns[i] : i \in 1..(n - 1)}
      /\ \A i \in 2..n : parent_columns[columns[i]] = columns[i - 1]
      /\ \A i \in 1..(n - 1) : child_columns[columns[i]] = columns[i + 1]
      /\ (n > 0) => /\ columns[1] \notin DOMAIN parent_columns
                    /\ columns[n] \notin DOMAIN child_columns
      /\ \A c \in DOMAIN parent_columns :
            /\ parent_columns[c] \in DOMAIN child_columns
            /\ child_columns[parent_columns[c]] = c
      /\ \A p \in DOMAIN child_columns :
            /\ child_columns[p] \in DOMAIN parent_columns
            /\ parent_columns[child_columns[p]] = p

C10_Witness ==
    /\ fpc = "built"
    /\ columns = <<"top", "mid", "fin">>
    /\ DOMAIN parent_columns = {"mid", "fin"}
    /\ parent_columns["mid"] = "top"
    /\ parent_columns["fin"] = "mid"
    /\ DOMAIN child_columns = {"top", "mid"}
    /\ child_columns["top"] = "mid"
    /\ child_columns["mid"] = "fin"

====
